---- MODULE Spec2Model ----
(***************************************************************************)
(* CropNonZeroNode (image_proc/src/crop_non_zero.cpp).                     *)
(*                                                                         *)
(* The node owns a publisher pub_ and a lazily created subscription        *)
(* sub_raw_.  The publisher's matched callback creates or shuts down the   *)
(* subscription; imageCb turns one incoming frame into at most one         *)
(* published cropped frame.                                                *)
(*                                                                         *)
(* An image is a function from 0 .. width*height*channels-1 to integer     *)
(* samples, row major.  Points and pixels are pairs <<x, y>>.              *)
(* The OpenCV calls of imageCb (minMaxIdx, convertTo, findContours,        *)
(* boundingRect, Mat::operator()) are modelled by what they compute.       *)
(***************************************************************************)
EXTENDS Integers, Sequences, FiniteSets

VARIABLES
    numSubscribers,   \* pub_.getNumSubscribers()
    sub_raw_,         \* TRUE iff sub_raw_ holds a live subscription
    lastCb,           \* the branch the last matched callback took
    matchedPending,   \* matched events queued for the callback
    raw_msg,          \* frame handed to imageCb, or NoMsg
    delivered,        \* number of frames delivered so far
    in_msg,           \* the frame the last imageCb run worked on, or NoMsg
    outcome,          \* how the last imageCb run ended
    m,                \* the mask of the last run (<<>> when none was built)
    minmax,           \* <<minVal, maxVal>> of the last run (<<>> when not computed)
    cnt,              \* the contour list of the last run
    r,                \* the rectangle of the last run (NoRect when none)
    out_image,        \* the message published by the last run, or NoMsg
    pubCount,         \* number of messages published so far
    alive             \* FALSE once the process has died

vars == <<numSubscribers, sub_raw_, lastCb, matchedPending, raw_msg,
          delivered, in_msg, outcome, m, minmax, cnt, r, out_image,
          pubCount, alive>>

nodeVars == <<numSubscribers, sub_raw_, lastCb, matchedPending>>
runVars  == <<in_msg, outcome, m, minmax, cnt, r, out_image, pubCount, alive>>

----------------------------------------------------------------------------
(* Bounds of the explored inputs.                                          *)

MaxW == 2          \* frame width, two-dimensional frames
MaxH == 2          \* frame height, two-dimensional frames
MaxRowW == 4       \* width of the one-row frames with signed samples
MaxSVal == 3       \* largest magnitude of a signed sample
MaxLineW == 7      \* width of the one-row binary frames
MaxSubs == 2       \* downstream subscribers
MaxPending == 2    \* queued matched events
MaxFrames == 2     \* frames delivered in one behaviour

----------------------------------------------------------------------------
(* Values.                                                                 *)

NoMsg == [encoding |-> "", width |-> 0, height |-> 0, data |-> <<>>, header |-> ""]
NoRect == [x |-> 0, y |-> 0, width |-> 0, height |-> 0]

U8Max == 255

SetMin(S) == CHOOSE a \in S : \A b \in S : a <= b
SetMax(S) == CHOOSE a \in S : \A b \in S : a >= b

----------------------------------------------------------------------------
(* Encodings (sensor_msgs::image_encodings).                               *)

SingleChannelEncodings == {"8UC1", "mono8", "16UC1", "32FC1"}
SignedEncodings == {"32FC1"}
MultiChannelEncodings == {"bgr8", "rgba8"}
UnknownEncodings == {"unknown"}

numChannels(enc) ==
    CASE enc \in SingleChannelEncodings -> 1
      [] enc = "bgr8" -> 3
      [] enc = "rgba8" -> 4
      [] OTHER -> 0

\* cv_bridge::toCvShare throws for an encoding it does not know
toCvShareThrows(msg) == msg.encoding \notin (SingleChannelEncodings \cup MultiChannelEncodings)

\* the channel check of imageCb
IsGrayscaleAny(enc) == TRUE
IsGrayscale(enc) == numChannels(enc) = 1

\* raw_msg->encoding == TYPE_8UC1
IsType8UC1(enc) == enc = "8UC1"

----------------------------------------------------------------------------
(* Pixel access.                                                           *)

Pixels(w, h) == (0 .. (w - 1)) \X (0 .. (h - 1))
At(data, w, p) == data[p[2] * w + p[1]]

\* cv_ptr->image != 0. : the non-zero pixels
NonZero(data, w, h) == {p \in Pixels(w, h) : At(data, w, p) # 0}

----------------------------------------------------------------------------
(* cv::minMaxIdx(image, &minVal, &maxVal, 0, 0, image != 0.)               *)
(* With an empty mask OpenCV reports minVal = maxVal = 0.                  *)

minMaxIdx(data, w, h) ==
    LET vs == {At(data, w, p) : p \in NonZero(data, w, h)}
    IN  IF vs = {} THEN <<0, 0>> ELSE <<SetMin(vs), SetMax(vs)>>

(* cvRound: round to nearest, ties to even; n/d with d > 0 *)
cvRound(n, d) ==
    LET q == n \div d
        rem == n - q * d
    IN  IF 2 * rem < d THEN q
        ELSE IF 2 * rem > d THEN q + 1
        ELSE IF q % 2 = 0 THEN q ELSE q + 1

(* cv::saturate_cast<uchar>(int) *)
saturate_castWrap(v) == v % (U8Max + 1)
saturate_cast(v) == IF v < 0 THEN 0 ELSE IF v > U8Max THEN U8Max ELSE v

(* image.convertTo(m, CV_8U, 255. / ra, -minVal * 255. / ra) with ra # 0:   *)
(* each sample v becomes saturate_cast<uchar>(v * alpha + beta).           *)
convertTo(data, minVal, ra) ==
    [i \in DOMAIN data |->
        saturate_cast(cvRound(data[i] * U8Max - minVal * U8Max, ra))]

(* With ra = 0 alpha is +inf and beta is +-inf or NaN, so every sample     *)
(* v * alpha + beta is NaN; the build decides what a NaN converts to:      *)
(* 0 where an invalid float-to-int conversion yields INT_MIN or 0 (x86,    *)
(* ARM), 255 where it yields INT_MAX (RISC-V).                             *)
NaNMaskValues == {0, U8Max}
convertToNaN(data, nanTo) == [i \in DOMAIN data |-> nanTo]

----------------------------------------------------------------------------
(* cv::findContours(m, cnt, CV_RETR_EXTERNAL, CV_CHAIN_APPROX_NONE)        *)

Adj8(p, q) == p # q /\ p[1] - q[1] \in -1 .. 1 /\ p[2] - q[2] \in -1 .. 1
Adj4(p, q) == (p[1] = q[1] /\ p[2] - q[2] \in {-1, 1})
              \/ (p[2] = q[2] /\ p[1] - q[1] \in {-1, 1})

\* the 8-connected component of the non-zero pixels nz that holds S
RECURSIVE Grow8(_, _)
Grow8(S, nz) ==
    LET T == S \cup {q \in nz : \E p \in S : Adj8(p, q)}
    IN  IF T = S THEN S ELSE Grow8(T, nz)

\* the zero pixels 4-connected to S through zero pixels
RECURSIVE Grow4(_, _)
Grow4(S, zs) ==
    LET T == S \cup {q \in zs : \E p \in S : Adj4(p, q)}
    IN  IF T = S THEN S ELSE Grow4(T, zs)

\* the background that reaches the frame of the image
Outside(nz, w, h) ==
    LET zs == Pixels(w, h) \ nz
        rim == {p \in zs : p[1] = 0 \/ p[2] = 0 \/ p[1] = w - 1 \/ p[2] = h - 1}
    IN  Grow4(rim, zs)

\* icvCodeDeltas: direction 0 is east, directions turn counter-clockwise
Delta == << <<1, 0>>, <<1, -1>>, <<0, -1>>, <<-1, -1>>,
            <<-1, 0>>, <<-1, 1>>, <<0, 1>>, <<1, 1>> >>
Step(p, s) == <<p[1] + Delta[s + 1][1], p[2] + Delta[s + 1][2]>>

\* border following from the current point i3, last direction s
RECURSIVE Follow(_, _, _, _, _, _)
Follow(nz, i0, i1, i3, s, acc) ==
    LET k == CHOOSE k \in 1 .. 8 :
                 /\ Step(i3, (s + k) % 8) \in nz
                 /\ \A j \in 1 .. (k - 1) : Step(i3, (s + j) % 8) \notin nz
        s2 == (s + k) % 8
        i4 == Step(i3, s2)
        acc2 == Append(acc, i3)
    IN  IF i4 = i0 /\ i3 = i1 THEN acc2
        ELSE Follow(nz, i0, i1, i4, (s2 + 4) % 8, acc2)

\* icvFetchContour: the outer border that starts at pixel i0
FirstDirs == <<3, 2, 1, 0, 7, 6, 5>>
FetchContour(nz, i0) ==
    LET hits == {j \in 1 .. 7 : Step(i0, FirstDirs[j]) \in nz}
    IN  IF hits = {} THEN <<i0>>
        ELSE LET s == FirstDirs[SetMin(hits)]
             IN  Follow(nz, i0, Step(i0, s), i0, s, <<>>)

\* raster scan: a border starts at the first pixel of each component whose
\* surrounding background reaches the frame (CV_RETR_EXTERNAL)
RasterFirst(S, w) ==
    CHOOSE p \in S : \A q \in S : p[2] * w + p[1] <= q[2] * w + q[1]

RECURSIVE ScanContours(_, _, _, _, _)
ScanContours(rest, nz, out, w, acc) ==
    IF rest = {} THEN acc
    ELSE LET p0 == RasterFirst(rest, w)
             comp == Grow8({p0}, nz)
             external == p0[1] = 0 \/ <<p0[1] - 1, p0[2]>> \in out
         IN  ScanContours(rest \ comp, nz, out, w,
                 IF external THEN Append(acc, FetchContour(nz, p0)) ELSE acc)

Reverse(s) == [i \in 1 .. Len(s) |-> s[Len(s) + 1 - i]]

\* the order of the returned list is the library's: that of the scan, or
\* the reverse of it
ContourOrders == {"scan", "reverse"}
findContours(mask, w, h, order) ==
    LET nz == NonZero(mask, w, h)
        found == ScanContours(nz, nz, Outside(nz, w, h), w, <<>>)
    IN  IF order = "scan" THEN found ELSE Reverse(found)

----------------------------------------------------------------------------
(* std::max_element(cnt.begin(), cnt.end(), a.size() < b.size())           *)
(* returns the index (from 1) of the chosen element, Len + 1 for end().    *)

RECURSIVE MaxScan(_, _, _, _)
MaxScan(c, largest, first, strict) ==
    IF first > Len(c) THEN largest
    ELSE MaxScan(c,
             IF (strict /\ Len(c[largest]) < Len(c[first]))
                \/ (~strict /\ Len(c[largest]) <= Len(c[first]))
             THEN first ELSE largest,
             first + 1, strict)

max_elementLast(c) == IF c = <<>> THEN 1 ELSE MaxScan(c, 1, 2, FALSE)
max_element(c) == IF c = <<>> THEN 1 ELSE MaxScan(c, 1, 2, TRUE)

(* cv::boundingRect of a point list *)
boundingRectOpen(pts) ==
    LET xs == {pts[i][1] : i \in 1 .. Len(pts)}
        ys == {pts[i][2] : i \in 1 .. Len(pts)}
    IN  [x |-> SetMin(xs), y |-> SetMin(ys),
         width |-> SetMax(xs) - SetMin(xs), height |-> SetMax(ys) - SetMin(ys)]
boundingRect(pts) ==
    LET xs == {pts[i][1] : i \in 1 .. Len(pts)}
        ys == {pts[i][2] : i \in 1 .. Len(pts)}
    IN  [x |-> SetMin(xs), y |-> SetMin(ys),
         width |-> SetMax(xs) - SetMin(xs) + 1,
         height |-> SetMax(ys) - SetMin(ys) + 1]

(* cv_ptr->image(r) followed by toImageMsg: the samples of the rectangle   *)
RoiOrigin(data, w, rc) ==
    [i \in 0 .. (rc.width * rc.height - 1) |->
        data[(i \div rc.width) * w + (i % rc.width)]]
Roi(data, w, rc) ==
    [i \in 0 .. (rc.width * rc.height - 1) |->
        data[(rc.y + (i \div rc.width)) * w + (rc.x + (i % rc.width))]]

\* out_msg: header and encoding of raw_msg, image = cv_ptr->image(r)
OutMsg(msg, rc) ==
    [encoding |-> msg.encoding, width |-> rc.width, height |-> rc.height,
     data |-> Roi(msg.data, msg.width, rc), header |-> msg.header]

----------------------------------------------------------------------------
(* CropNonZeroNode::imageCb                                                *)

\* the handler returns early: nothing built, nothing published
Dropped(msg, why) ==
    /\ in_msg' = msg
    /\ outcome' = why
    /\ m' = <<>>
    /\ minmax' = <<>>
    /\ cnt' = <<>>
    /\ r' = NoRect
    /\ out_image' = NoMsg
    /\ UNCHANGED <<pubCount, alive>>

\* the handler has its mask and goes on from findContours
FromMask(msg, mask, mm) ==
    /\ in_msg' = msg
    /\ m' = mask
    /\ minmax' = mm
    /\ cnt' \in {findContours(m', msg.width, msg.height, order) : order \in ContourOrders}
    /\ IF cnt' = <<>>
       THEN \* cnt[0] of an empty vector: the process dies
            /\ outcome' \in {"segfault", "abort"}
            /\ r' = NoRect
            /\ out_image' = NoMsg
            /\ alive' = FALSE
            /\ UNCHANGED pubCount
       ELSE /\ outcome' = "published"
            /\ r' = boundingRect(cnt'[max_element(cnt')])
            /\ out_image' = OutMsg(msg, r')
            /\ alive' = TRUE
            /\ pubCount' = pubCount + 1

imageCb ==
    /\ alive
    /\ raw_msg # NoMsg
    /\ raw_msg' = NoMsg
    /\ UNCHANGED <<nodeVars, delivered>>
    /\ IF toCvShareThrows(raw_msg)
       THEN Dropped(raw_msg, "cv_bridge exception")
       ELSE IF ~IsGrayscale(raw_msg.encoding)
       THEN Dropped(raw_msg, "UnsupportedChannelCount")
       ELSE IF IsType8UC1(raw_msg.encoding)
       THEN FromMask(raw_msg, raw_msg.data, <<>>)
       ELSE LET mm == minMaxIdx(raw_msg.data, raw_msg.width, raw_msg.height)
                ra == mm[2] - mm[1]
            IN  IF ra # 0
                THEN FromMask(raw_msg, convertTo(raw_msg.data, mm[1], ra), mm)
                ELSE \E nanTo \in NaNMaskValues :
                         FromMask(raw_msg, convertToNaN(raw_msg.data, nanTo), mm)

----------------------------------------------------------------------------
(* Frames.                                                                 *)

Header == "stamp"

\* the images of an encoding with samples of vals: the unsigned encodings
\* hold no negative sample, the multi-channel frames are of one colour
ImagesOf(enc, w, h, vals) ==
    IF enc \in MultiChannelEncodings
    THEN {[i \in 0 .. (w * h * numChannels(enc) - 1) |-> v] : v \in {u \in vals : u >= 0}}
    ELSE IF enc \in SignedEncodings
    THEN [0 .. (w * h - 1) -> vals]
    ELSE [0 .. (w * h - 1) -> {u \in vals : u >= 0}]

\* frames of the encodings encs, widths ws, heights hs, samples of vals
IsFrameOf(f, encs, ws, hs, vals) ==
    \E e \in encs : \E w \in ws : \E h \in hs :
        \E d \in ImagesOf(e, w, h, vals) :
            f = [encoding |-> e, width |-> w, height |-> h, data |-> d,
                 header |-> Header]

AllEncodings == SingleChannelEncodings \cup MultiChannelEncodings \cup UnknownEncodings

(* The publisher's matched callback (event_callbacks.matched_callback).     *)

\* the branch the callback takes
matchedBranchKeep(n, active) ==
    IF n = 0 THEN "noop" ELSE IF ~active THEN "create" ELSE "noop"
matchedBranch(n, active) ==
    IF n = 0 THEN "shutdown" ELSE IF ~active THEN "create" ELSE "noop"

\* a downstream subscriber connects to pub_
SubscriberConnect ==
    /\ alive
    /\ numSubscribers < MaxSubs
    /\ matchedPending < MaxPending
    /\ numSubscribers' = numSubscribers + 1
    /\ matchedPending' = matchedPending + 1
    /\ UNCHANGED <<sub_raw_, lastCb, raw_msg, delivered, runVars>>

\* a downstream subscriber disconnects from pub_
SubscriberDisconnect ==
    /\ alive
    /\ numSubscribers > 0
    /\ matchedPending < MaxPending
    /\ numSubscribers' = numSubscribers - 1
    /\ matchedPending' = matchedPending + 1
    /\ UNCHANGED <<sub_raw_, lastCb, raw_msg, delivered, runVars>>

\* the executor runs the matched callback for one queued event
matched_callback ==
    /\ alive
    /\ matchedPending > 0
    /\ matchedPending' = matchedPending - 1
    /\ lastCb' = matchedBranch(numSubscribers, sub_raw_)
    /\ sub_raw_' = CASE lastCb' = "shutdown" -> FALSE
                      [] lastCb' = "create" -> TRUE
                      [] OTHER -> sub_raw_
    /\ UNCHANGED <<numSubscribers, raw_msg, delivered, runVars>>

\* the live subscription hands a frame of the input topic to imageCb
Deliver ==
    /\ alive
    /\ sub_raw_
    /\ raw_msg = NoMsg
    /\ delivered < MaxFrames
    /\ IsFrameOf(raw_msg', AllEncodings, {2}, {1}, {0, 1})
    /\ delivered' = delivered + 1
    /\ UNCHANGED <<nodeVars, runVars>>

\* the published frame is the input of a second crop
Refeed ==
    /\ alive
    /\ raw_msg = NoMsg
    /\ outcome = "published"
    /\ delivered < MaxFrames
    /\ raw_msg' = out_image
    /\ delivered' = delivered + 1
    /\ UNCHANGED <<nodeVars, runVars>>

----------------------------------------------------------------------------
(* Specifications.                                                         *)

\* no imageCb run yet
NoRun ==
    /\ in_msg = NoMsg
    /\ outcome = "none"
    /\ m = <<>>
    /\ minmax = <<>>
    /\ cnt = <<>>
    /\ r = NoRect
    /\ out_image = NoMsg
    /\ pubCount = 0
    /\ alive = TRUE

\* the node as the constructor leaves it
Init ==
    /\ numSubscribers = 0
    /\ sub_raw_ = FALSE
    /\ lastCb = "none"
    /\ matchedPending = 0
    /\ raw_msg = NoMsg
    /\ delivered = 0
    /\ NoRun

Next ==
    \/ SubscriberConnect
    \/ SubscriberDisconnect
    \/ matched_callback
    \/ Deliver
    \/ imageCb

Spec == Init /\ [][Next]_vars

\* the node with one downstream subscriber, the subscription created and
\* one frame handed to imageCb
InitRun ==
    /\ numSubscribers = 1
    /\ sub_raw_ = TRUE
    /\ lastCb = "create"
    /\ matchedPending = 0
    /\ delivered = 1
    /\ NoRun

\* one crop of a two-dimensional frame of any encoding; the samples are
\* zero and two distinct non-zero values (minVal and maxVal)
Samples == {0, 1, 2}
InitCrop ==
    /\ IsFrameOf(raw_msg, AllEncodings, 1 .. MaxW, 1 .. MaxH, Samples)
    /\ InitRun
SpecCrop == InitCrop /\ [][imageCb]_vars

\* one crop of a one-row frame that is normalized, signed samples included
NormEncodings == {"mono8", "16UC1", "32FC1"}
InitNorm ==
    /\ IsFrameOf(raw_msg, NormEncodings, 1 .. MaxRowW, {1}, -MaxSVal .. MaxSVal)
    /\ InitRun
SpecNorm == InitNorm /\ [][imageCb]_vars

\* one crop of a one-row binary 8UC1 frame: several contours
InitLine ==
    /\ IsFrameOf(raw_msg, {"8UC1"}, 1 .. MaxLineW, {1}, {0, 1})
    /\ InitRun
SpecLine == InitLine /\ [][imageCb]_vars

\* a crop, and a second crop of what the first published
NextTwice == imageCb \/ Refeed
SpecTwice == InitNorm /\ [][NextTwice]_vars

----------------------------------------------------------------------------
(* Properties.                                                             *)

Ran == in_msg.encoding # ""
MaskBuilt == DOMAIN m # {}
Published == out_image.encoding # ""
Normalized == in_msg.encoding \in SingleChannelEncodings \ {"8UC1"}

\* C1: a frame whose encoding declares a channel count other than one is
\* dropped with UnsupportedChannelCount: no mask is built, no contour search
\* runs, nothing is published.
RejectsMultiChannel ==
    in_msg.encoding \in MultiChannelEncodings =>
        /\ outcome = "UnsupportedChannelCount"
        /\ ~MaskBuilt
        /\ cnt = <<>>
        /\ r = NoRect
        /\ ~Published
        /\ pubCount = 0
        /\ alive

WitnessRejectsMultiChannel ==
    in_msg.encoding = "bgr8" /\ outcome = "UnsupportedChannelCount"

\* C2: when contour extraction on the mask yields no contour, the crop ends
\* with the error NoContourFound, publishes nothing and the process lives on.
EmptyContoursRaiseNoContourFound ==
    (MaskBuilt /\ cnt = <<>>) =>
        /\ outcome = "NoContourFound"
        /\ ~Published
        /\ alive

\* C3: a normalized frame whose range maxVal - minVal is zero ends in one
\* defined outcome (DegenerateNormalizationRange, NoContourFound or a
\* published crop of a constant mask) and the process does not crash.
DegenerateRangeIsDefined ==
    (Normalized /\ Len(minmax) = 2 /\ minmax[1] = minmax[2]) =>
        /\ alive
        /\ outcome \in {"DegenerateNormalizationRange", "NoContourFound", "published"}

\* the non-zero pixels of frame f are exactly the block (x0, y0, w, h)
IsBlock(f, x0, y0, w, h) ==
    /\ x0 + w <= f.width
    /\ y0 + h <= f.height
    /\ \A p \in Pixels(f.width, f.height) :
           At(f.data, f.width, p) # 0
               <=> (p[1] \in x0 .. (x0 + w - 1) /\ p[2] \in y0 .. (y0 + h - 1))

CropIsBlock(x0, y0, w, h) ==
    /\ outcome = "published"
    /\ r = [x |-> x0, y |-> y0, width |-> w, height |-> h]
    /\ out_image.width = w
    /\ out_image.height = h
    /\ \A i \in 0 .. (w - 1) : \A j \in 0 .. (h - 1) :
           out_image.data[j * w + i] = in_msg.data[(y0 + j) * in_msg.width + (x0 + i)]

\* C4: an 8-bit unsigned single-channel frame whose non-zero pixels are one
\* rectangular block is cropped to exactly that block, pixels unchanged.
CropsBlockOf8Bit ==
    in_msg.encoding \in {"8UC1", "mono8"} =>
        \A x0 \in 0 .. (in_msg.width - 1) : \A y0 \in 0 .. (in_msg.height - 1) :
            \A w \in 1 .. in_msg.width : \A h \in 1 .. in_msg.height :
                IsBlock(in_msg, x0, y0, w, h) => CropIsBlock(x0, y0, w, h)

\* rc is the minimal axis-aligned rectangle around the points pts
EnclosesMinimally(rc, pts) ==
    /\ \A i \in 1 .. Len(pts) :
           /\ pts[i][1] \in rc.x .. (rc.x + rc.width - 1)
           /\ pts[i][2] \in rc.y .. (rc.y + rc.height - 1)
    /\ \E i \in 1 .. Len(pts) : pts[i][1] = rc.x
    /\ \E i \in 1 .. Len(pts) : pts[i][1] = rc.x + rc.width - 1
    /\ \E i \in 1 .. Len(pts) : pts[i][2] = rc.y
    /\ \E i \in 1 .. Len(pts) : pts[i][2] = rc.y + rc.height - 1

SecondCropIsIdentity ==
    (delivered >= 2 /\ raw_msg.encoding = "" /\ Ran) =>
        /\ alive
        /\ outcome = "published"
        /\ r = [x |-> 0, y |-> 0, width |-> in_msg.width, height |-> in_msg.height]
        /\ out_image = in_msg

\* the 8-bit image of the non-zero region of a frame
Binarized(data) == [i \in DOMAIN data |-> IF data[i] # 0 THEN U8Max ELSE 0]

\* C7: the mask of a normalized frame is non-zero exactly where the frame
\* is, so its contours are those of the 8-bit image of the non-zero region.
MaskKeepsNonZeroRegion ==
    (Normalized /\ MaskBuilt) =>
        /\ \A i \in DOMAIN m : m[i] # 0 <=> in_msg.data[i] # 0
        /\ \E order \in ContourOrders :
               cnt = findContours(Binarized(in_msg.data), in_msg.width,
                                  in_msg.height, order)

\* C8: a published crop has a rectangle inside the input, the rectangle's
\* size, the original samples of the rectangle, the input's encoding and
\* header, and the input is left as it was.
PublishesOriginalRegion ==
    [][(raw_msg.encoding # "" /\ raw_msg'.encoding = "" /\ outcome' = "published") =>
          /\ r'.x >= 0
          /\ r'.y >= 0
          /\ r'.width >= 1
          /\ r'.height >= 1
          /\ r'.x + r'.width <= raw_msg.width
          /\ r'.y + r'.height <= raw_msg.height
          /\ out_image'.width = r'.width
          /\ out_image'.height = r'.height
          /\ DOMAIN out_image'.data = 0 .. (r'.width * r'.height - 1)
          /\ \A i \in 0 .. (r'.width - 1) : \A j \in 0 .. (r'.height - 1) :
                 out_image'.data[j * r'.width + i]
                     = raw_msg.data[(r'.y + j) * raw_msg.width + (r'.x + i)]
          /\ out_image'.encoding = raw_msg.encoding
          /\ out_image'.header = raw_msg.header
          /\ in_msg' = raw_msg]_vars

WitnessPublishesOriginalRegion ==
    /\ outcome = "published"
    /\ Normalized
    /\ r.x > 0
    /\ r.width < in_msg.width
    /\ \E i \in DOMAIN out_image.data :
           out_image.data[i] # m[(r.y + (i \div r.width)) * in_msg.width
                                 + (r.x + (i % r.width))]

\* C9: with range = maxVal - minVal > 0 a sample v becomes
\* round(v * 255/range - minVal * 255/range) saturated to 0 .. 255:
\* maxVal becomes 255 and minVal becomes 0.
NormalizesWithSaturation ==
    (Normalized /\ Len(minmax) = 2 /\ minmax[2] > minmax[1]) =>
        LET lo == minmax[1]
            hi == minmax[2]
            ra == hi - lo
        IN  \A i \in DOMAIN in_msg.data :
                LET v == in_msg.data[i]
                    x2 == 2 * U8Max * (v - lo)
                    fl == x2 \div (2 * ra)
                IN  /\ m[i] \in 0 .. U8Max
                    /\ v = hi => m[i] = U8Max
                    /\ v = lo => m[i] = 0
                    /\ \E q \in {fl, fl + 1} :
                           /\ 2 * ra * q - x2 \in -ra .. ra
                           /\ (2 * ra * q - x2 \in {-ra, ra}) => q % 2 = 0
                           /\ q < 0 => m[i] = 0
                           /\ q > U8Max => m[i] = U8Max
                           /\ q \in 0 .. U8Max => m[i] = q

WitnessNormalizesWithSaturation ==
    /\ Normalized
    /\ Len(minmax) = 2
    /\ minmax[2] > minmax[1]
    /\ \E i, j \in DOMAIN in_msg.data :
           /\ in_msg.data[i] > minmax[2]
           /\ m[i] = U8Max
           /\ in_msg.data[j] \notin {0, minmax[1], minmax[2]}
           /\ m[j] \in 1 .. (U8Max - 1)

\* C10: after every run of the matched callback the subscription is live
\* exactly when pub_ has a subscriber: a run with subscribers and a live
\* subscription creates nothing, a run without subscribers shuts the
\* subscription down, and a later run with subscribers creates it again.
LazySubscription ==
    [][(matchedPending' = matchedPending - 1) =>
          /\ sub_raw_' <=> numSubscribers' > 0
          /\ (sub_raw_ /\ numSubscribers > 0) => lastCb' = "noop"
          /\ numSubscribers = 0 => (lastCb' = "shutdown" /\ ~sub_raw_')
          /\ (~sub_raw_ /\ numSubscribers > 0) => lastCb' = "create"]_vars

WitnessLazySubscription ==
    /\ lastCb = "shutdown"
    /\ ~sub_raw_
    /\ numSubscribers = 0
    /\ pubCount > 0

====
